---- MODULE Spec2Model ----
(***************************************************************************)
(* One run of MEGAsync.sync() (src/src/sync.py): log in, list the remote   *)
(* folder, compute the folders and files to download or replace against    *)
(* the local directory, delete the files to be replaced and hand every     *)
(* queued node to mega-get.                                                *)
(*                                                                         *)
(* Paths are sequences of one-character strings, so that str.startswith    *)
(* and the ordinal sort of getRemoteTree are computed character by         *)
(* character as Python does.  A local path is relative to localRoot; the   *)
(* empty path is localRoot itself, which exists.                           *)
(***************************************************************************)
EXTENDS Integers, Sequences, FiniteSets, TLC

VARIABLES
    pc,             \* position of sync(): the next statement to run
    result,         \* "running", or how sync() ended: "True", "False", "raised"
    remote,         \* the node records lsRecursive('/') parses from mega-ls -lr
    tree,           \* self.tree
    downloadNodes,  \* self.downloadNodes
    replaceNodes,   \* self.replaceNodes
    local,          \* the local filesystem under localRoot: path -> entry
    local0,         \* the local filesystem when sync() was called
    ri,             \* queueDownloads: index of the current node of replaceNodes
    fi,             \* queueDownloads: index of the current node of downloadNodes
    rs,             \* queueDownloads: index of the next statement of the replace loop's body
    newDownloads,   \* queueDownloads: its counter of successful mega-get calls
    events,         \* the external calls and file operations made so far, in order
    unreadable,     \* local paths whose os.path.getsize / os.stat raise OSError
    \* the shallow walk, getRemoteTree() of src/src/scrape.py
    hier,           \* the paths the remote folder really holds
    lsFail,         \* the remote directories for which mega-ls -l returns non-zero
    nodesToCheck,   \* its list of pending directories
    wn,             \* index (from 1) of the for loop over nodesToCheck
    toPop,          \* its list of processed indices
    stree,          \* its local list tree
    badNodes,       \* its counter of bad nodes
    wpc,            \* its position: "idle", "for", "returned" or "raised"
    lsCalls,        \* the directories given to self.ls() so far, in order
    \* the parser, lsRecursive() of src/src/sync.py
    items,          \* what mega-ls -lr prints, line by line, before it is rendered
    li,             \* index of the next line of the for loop over stdout
    remoteDir,      \* its variable remoteDir
    nodes,          \* its list nodes
    ppc             \* its position: "idle", "lines", "returned" or "raised"

\* The fields and locals of sync() and of the methods it calls.
syncVars == <<pc, result, remote, tree, downloadNodes, replaceNodes, local, local0,
              ri, fi, rs, newDownloads, events, unreadable>>

shallowVars == <<hier, lsFail, nodesToCheck, wn, toPop, stree, badNodes, wpc, lsCalls>>

parseVars == <<items, li, remoteDir, nodes, ppc>>

vars == <<syncVars, shallowVars, parseVars>>

\* What no statement of sync() writes.
syncFrame == <<unreadable, shallowVars, parseVars>>

----------------------------------------------------------------------------
(* Bounds of the checked instances. *)

\* Largest local modification time; times are 0..MaxTime.
MaxTime == 2

\* Largest local file size; sizes are 1..MaxSize.
MaxSize == 2

\* node['size'] of every remote file of the instance.
RemoteSize == 1

\* node['date'] of every remote file of the instance.
RemoteDate == 1

----------------------------------------------------------------------------
(* Paths. *)

\* Code point of a character, as Python's str comparison orders them.
Ord(c) ==
    CASE c = "/" -> 47
      [] c = "2" -> 50
      [] c = "a" -> 97
      [] c = "s" -> 115
      [] c = "x" -> 120
      [] c = "z" -> 122

pA   == <<"a">>
pAS  == <<"a", "/", "s">>
pAX  == <<"a", "/", "x">>
pA2  == <<"a", "2">>
pA2Z == <<"a", "2", "/", "z">>

\* The remote hierarchy the instances are drawn from: folders a, a/s and a2
\* (a sibling of a whose name starts with "a"), files a/x and a2/z.
FolderPaths == {pA, pAS, pA2}
FilePaths   == {pAX, pA2Z}
Paths       == FolderPaths \cup FilePaths

\* The records lsRecursive can yield for this hierarchy (type, size, date, path).
NodeOf(p) ==
    IF p \in FolderPaths
    THEN [type |-> "d", path |-> p, size |-> 0, date |-> RemoteDate]
    ELSE [type |-> "-", path |-> p, size |-> RemoteSize, date |-> RemoteDate]

\* str.startswith
StartsWith(s, prefix) ==
    /\ Len(prefix) <= Len(s)
    /\ SubSeq(s, 1, Len(prefix)) = prefix

\* str < str of Python: the first differing character decides, a proper prefix is smaller.
PathLess(p, q) ==
    \E k \in 1..Len(q) :
        /\ k <= Len(p) + 1
        /\ \A i \in 1..(k - 1) : p[i] = q[i]
        /\ (k = Len(p) + 1 \/ Ord(p[k]) < Ord(q[k]))

\* os.path.dirname of a relative path: what precedes the last separator.
Dirname(p) ==
    LET seps == {i \in 1..Len(p) : p[i] = "/"}
    IN  IF seps = {} THEN <<>>
        ELSE SubSeq(p, 1, (CHOOSE i \in seps : \A j \in seps : j <= i) - 1)

\* p lies inside folder f of the hierarchy (f is a proper ancestor of p).
IsInside(p, f) == StartsWith(p, f \o <<"/">>)

----------------------------------------------------------------------------
(* The local filesystem. *)

Absent == [kind |-> "none", size |-> 0, mtime |-> 0]
Dir    == [kind |-> "dir", size |-> 0, mtime |-> 0]

LocalFile(s, t) == [kind |-> "file", size |-> s, mtime |-> t]

\* What may lie at path p locally: nothing, or an entry of the kind the remote
\* hierarchy has there (a directory for a folder, a file of any size and time).
LocalEntries(p) ==
    IF p \in FolderPaths THEN {Absent, Dir}
    ELSE {Absent} \cup {LocalFile(s, t) : s \in 1..MaxSize, t \in 0..MaxTime}

\* os.path.exists(os.path.join(self.localRoot, p))
Exists(loc, p) == p = <<>> \/ loc[p].kind # "none"

\* A filesystem holds an entry only inside an existing directory.
Consistent(loc) ==
    \A p \in Paths :
        loc[p].kind # "none" =>
            Dirname(p) = <<>> \/ loc[Dirname(p)].kind = "dir"

LocalStates ==
    {loc \in [Paths -> UNION {LocalEntries(p) : p \in Paths}] :
        /\ \A p \in Paths : loc[p] \in LocalEntries(p)
        /\ Consistent(loc)}

----------------------------------------------------------------------------
(* The pure parts of the methods. *)

\* SortByPath with the order turned round.
RECURSIVE SortByPathReverse(_)
SortByPathReverse(S) ==
    IF S = {} THEN <<>>
    ELSE LET m == CHOOSE n \in S : \A o \in S \ {n} : ~PathLess(n.path, o.path)
         IN  <<m>> \o SortByPathReverse(S \ {m})

\* sorted(nodes, key=lambda n: n['path']); the paths of the records are distinct.
RECURSIVE SortByPath(_)
SortByPath(S) ==
    IF S = {} THEN <<>>
    ELSE LET m == CHOOSE n \in S : \A o \in S \ {n} : ~PathLess(o.path, n.path)
         IN  <<m>> \o SortByPath(S \ {m})

\* IsFolder with every kind but File taken for a folder.
IsFolderOrOther(node) == node.type # "-"

\* node['type'] == 'd' of getNewFolders
IsFolder(node) == node.type = "d"

\* node['type'] == '-' of filesToSync
IsFile(node) == node.type = "-"

\* IsNeeded with the check against the queued folders left out.
IsNeededUnchecked(node, dl) == TRUE

\* The inner loop of getNewFolders: no queued node's path is a prefix of node's.
IsNeeded(node, dl) ==
    \A k \in 1..Len(dl) : ~StartsWith(node.path, dl[k].path)

\* The loop of getNewFolders from tree index i on, with download list dl.
RECURSIVE NewFolders(_, _, _, _)
NewFolders(t, loc, dl, i) ==
    IF i > Len(t) THEN dl
    ELSE LET node == t[i]
         IN  IF IsFolder(node) /\ ~Exists(loc, node.path) /\ IsNeeded(node, dl)
             THEN NewFolders(t, loc, Append(dl, node), i + 1)
             ELSE NewFolders(t, loc, dl, i + 1)

\* LocalDirExists with the test of the containing directory left out.
LocalDirExistsUnchecked(loc, node) == TRUE

\* os.path.exists(localDir) of filesToSync
LocalDirExists(loc, node) == Exists(loc, Dirname(node.path))

isSameSize(loc, node) == loc[node.path].size = node.size

\* isRemoteNewer with <= for <.
isRemoteNewerOrEqual(loc, node) == loc[node.path].mtime <= node.date

\* isRemoteNewer with the comparison turned round.
isRemoteOlder(loc, node) == loc[node.path].mtime > node.date

isRemoteNewer(loc, node) == loc[node.path].mtime < node.date

\* The loop of filesToSync from tree index i on, with the two lists so far.
RECURSIVE SyncFiles(_, _, _, _)
SyncFiles(t, loc, lists, i) ==
    IF i > Len(t) THEN lists
    ELSE LET node == t[i]
         IN  IF IsFile(node) /\ LocalDirExists(loc, node)
             THEN IF ~Exists(loc, node.path)
                  THEN SyncFiles(t, loc,
                           [lists EXCEPT !.dl = Append(@, node)], i + 1)
                  ELSE IF (~isSameSize(loc, node)) \/ isRemoteNewer(loc, node)
                       THEN SyncFiles(t, loc,
                                [lists EXCEPT !.rl = Append(@, node)], i + 1)
                       ELSE SyncFiles(t, loc, lists, i + 1)
             ELSE SyncFiles(t, loc, lists, i + 1)

\* A local path whose probe (os.stat) fails with an error other than not-found,
\* and the call the error first shows in.
ProbeError(p, at) == [path |-> p, at |-> at]

\* What os.path.exists tells of the filesystem: it returns False on the OSError of
\* os.stat, so a path whose probe fails there is seen as missing.
Seen(loc, unr) ==
    [p \in Paths |-> IF ProbeError(p, "exists") \in unr THEN Absent ELSE loc[p]]

\* The index of the first node of the tree at which os.path.getsize raises, 0 if
\* there is none: nothing in filesToSync or sync() catches the OSError.
RaisesAt(t, loc, unr) ==
    LET bad == {i \in 1..Len(t) : /\ IsFile(t[i])
                                    /\ LocalDirExists(loc, t[i])
                                    /\ Exists(loc, t[i].path)
                                    /\ ProbeError(t[i].path, "getsize") \in unr}
    IN  IF bad = {} THEN 0 ELSE CHOOSE i \in bad : \A j \in bad : i <= j

Ev(op, path, rc) == [op |-> op, path |-> path, rc |-> rc]

----------------------------------------------------------------------------
\* No shallow walk is under way.
ShallowIdle ==
    /\ hier = {}
    /\ lsFail = {}
    /\ nodesToCheck = <<>>
    /\ wn = 1
    /\ toPop = <<>>
    /\ stree = <<>>
    /\ badNodes = 0
    /\ wpc = "idle"
    /\ lsCalls = <<>>

\* No listing is being parsed.
ParseIdle ==
    /\ items = <<>>
    /\ li = 1
    /\ remoteDir = <<>>
    /\ nodes = <<>>
    /\ ppc = "idle"

\* A MEGAsync object as __init__ leaves it, sync() about to be called, over any
\* listing of the hierarchy and any local directory that can be read.
SyncStart ==
    /\ pc = "login"
    /\ result = "running"
    /\ tree = <<>>
    /\ downloadNodes = <<>>
    /\ replaceNodes = <<>>
    /\ local \in LocalStates
    /\ local0 = local
    /\ ri = 1
    /\ fi = 1
    /\ rs = 1
    /\ newDownloads = 0
    /\ events = <<>>

\* sync() is about to be called over any listing of the hierarchy.
InitSync ==
    /\ remote \in SUBSET {NodeOf(p) : p \in Paths}
    /\ SyncStart

Init ==
    /\ InitSync
    /\ unreadable = {}
    /\ ShallowIdle
    /\ ParseIdle

\* LoginFailed with the return code of mega-login ignored.
LoginFailedIgnored(rc) == FALSE

\* login(): mega-logout, then mega-login and mega-cd; sync() returns False on a
\* non-zero mega-login, and the exception of a failed log-out leaves sync().
LoginFailed(rc) == rc # 0

login ==
    /\ pc = "login"
    /\ \E logoutRc \in {0, 1}, loginRc \in {0, 1} :
        IF logoutRc # 0
        THEN /\ events' = events \o <<Ev("mega-logout", <<>>, logoutRc)>>
             /\ pc' = "end"
             /\ result' = "raised"
        ELSE /\ events' = events \o <<Ev("mega-logout", <<>>, 0),
                                      Ev("mega-login", <<>>, loginRc),
                                      Ev("mega-cd", <<>>, 0)>>
             /\ IF LoginFailed(loginRc)
                THEN pc' = "end" /\ result' = "False"
                ELSE pc' = "getRemoteTree" /\ result' = result
    /\ UNCHANGED <<remote, tree, downloadNodes, replaceNodes, local, local0,
                   ri, fi, rs, newDownloads>>
    /\ UNCHANGED syncFrame

\* getRemoteTree(): one mega-ls -lr; its return code is logged and not tested.
getRemoteTree ==
    /\ pc = "getRemoteTree"
    /\ \E lsRc \in {0, 1} :
        events' = Append(events, Ev("mega-ls", <<>>, lsRc))
    /\ tree' = SortByPath(remote)
    /\ pc' = "getNewFolders"
    /\ UNCHANGED <<result, remote, downloadNodes, replaceNodes, local, local0,
                   ri, fi, rs, newDownloads>>
    /\ UNCHANGED syncFrame

getNewFolders ==
    /\ pc = "getNewFolders"
    /\ downloadNodes' = NewFolders(tree, local, downloadNodes, 1)
    /\ pc' = "filesToSync"
    /\ UNCHANGED <<result, remote, tree, replaceNodes, local, local0,
                   ri, fi, rs, newDownloads, events>>
    /\ UNCHANGED syncFrame

\* filesToSync(): the loop over the tree.  The OSError of os.path.getsize or
\* os.stat on a file that exists is not caught and ends sync().
filesToSync ==
    /\ pc = "filesToSync"
    /\ LET seen == Seen(local, unreadable)
           k == RaisesAt(tree, seen, unreadable)
           done == IF k = 0 THEN tree ELSE SubSeq(tree, 1, k - 1)
           lists == SyncFiles(done, seen,
                              [dl |-> downloadNodes, rl |-> replaceNodes], 1)
       IN  /\ downloadNodes' = lists.dl
           /\ replaceNodes' = lists.rl
           /\ IF k = 0
              THEN /\ pc' = "queueDownloads"
                   /\ UNCHANGED <<result, events>>
              ELSE /\ events' = Append(events, Ev("getsize", tree[k].path, 1))
                   /\ pc' = "end"
                   /\ result' = "raised"
    /\ UNCHANGED <<remote, tree, local, local0, ri, fi, rs, newDownloads>>
    /\ UNCHANGED syncFrame

\* queueDownloads(), up to its first loop: _tmp is made and _replace.log opened.
queueDownloads ==
    /\ pc = "queueDownloads"
    /\ pc' = "replace"
    /\ ri' = 1
    /\ rs' = 1
    /\ UNCHANGED <<result, remote, tree, downloadNodes, replaceNodes, local, local0,
                   fi, newDownloads, events>>
    /\ UNCHANGED syncFrame

\* ReplaceBody with the node not added to the download list.
ReplaceBodyNoAppend == <<"write", "remove">>

\* ReplaceBody with the file deleted before its record is written.
ReplaceBodyRemoveFirst == <<"remove", "write", "append">>

\* The statements of the body of "for node in self.replaceNodes", in order:
\* f.write(json.dumps(node)), os.remove(local path), self.downloadNodes.append(node).
ReplaceBody == <<"write", "remove", "append">>

\* One statement of the replace loop's body, for node replaceNodes[ri].  os.remove
\* of a file that is not there raises FileNotFoundError, which nothing catches.
replaceStep ==
    /\ pc = "replace"
    /\ ri <= Len(replaceNodes)
    /\ LET node == replaceNodes[ri]
           stmt == ReplaceBody[rs]
       IN  IF stmt = "remove" /\ ~Exists(local, node.path)
           THEN /\ events' = Append(events, Ev(stmt, node.path, 1))
                /\ pc' = "end"
                /\ result' = "raised"
                /\ UNCHANGED <<local, downloadNodes, ri, rs>>
           ELSE /\ events' = Append(events, Ev(stmt, node.path, 0))
                /\ local' = IF stmt = "remove"
                            THEN [local EXCEPT ![node.path] = Absent]
                            ELSE local
                /\ downloadNodes' = IF stmt = "append"
                                    THEN Append(downloadNodes, node)
                                    ELSE downloadNodes
                /\ IF rs < Len(ReplaceBody)
                   THEN rs' = rs + 1 /\ ri' = ri
                   ELSE rs' = 1 /\ ri' = ri + 1
                /\ UNCHANGED <<pc, result>>
    /\ UNCHANGED <<remote, tree, replaceNodes, local0, fi, newDownloads>>
    /\ UNCHANGED syncFrame

\* The replace loop is over and _replace.log closed; the download loop starts.
replaceDone ==
    /\ pc = "replace"
    /\ ri > Len(replaceNodes)
    /\ pc' = "fetch"
    /\ fi' = 1
    /\ UNCHANGED <<result, remote, tree, downloadNodes, replaceNodes, local, local0,
                   ri, rs, newDownloads, events>>
    /\ UNCHANGED syncFrame

\* The local filesystem after mega-get has downloaded node: a file arrives with the
\* remote size and modification time t, a folder arrives with every node of the
\* listing inside it, and the directories leading to what arrived exist.
Fetched(loc, rem, node, t) ==
    LET inside == {n \in rem : /\ node.type = "d"
                                /\ n.type \in {"d", "-"}
                                /\ IsInside(n.path, node.path)}
        arrived == {node.path} \cup {n.path : n \in inside}
        Arrival(p) == IF p = node.path THEN node ELSE CHOOSE n \in inside : n.path = p
    IN  [p \in Paths |->
            IF p \in arrived
            THEN IF Arrival(p).type = "d" THEN Dir ELSE LocalFile(Arrival(p).size, t)
            ELSE IF \E q \in arrived : IsInside(q, p) THEN Dir
            ELSE loc[p]]

\* One iteration of "for node in self.downloadNodes".  After a non-zero mega-get,
\* subprocess.run(["mega-errorcode", p.returncode]) is given an int in its argument
\* list and raises TypeError: the continue that follows it is never reached.
fetch ==
    /\ pc = "fetch"
    /\ fi <= Len(downloadNodes)
    /\ LET node == downloadNodes[fi]
       IN  \E rc \in {0, 1} :
            /\ events' = Append(events, Ev("mega-get", node.path, rc))
            /\ IF rc # 0
               THEN /\ pc' = "end"
                    /\ result' = "raised"
                    /\ UNCHANGED <<local, fi, newDownloads>>
               ELSE /\ \E t \in node.date..MaxTime :
                        local' = Fetched(local, remote, node, t)
                    /\ fi' = fi + 1
                    /\ newDownloads' = newDownloads + 1
                    /\ UNCHANGED <<pc, result>>
    /\ UNCHANGED <<remote, tree, downloadNodes, replaceNodes, local0, ri, rs>>
    /\ UNCHANGED syncFrame

\* queueDownloads() returns and sync() returns True.
syncDone ==
    /\ pc = "fetch"
    /\ fi > Len(downloadNodes)
    /\ pc' = "end"
    /\ result' = "True"
    /\ UNCHANGED <<remote, tree, downloadNodes, replaceNodes, local, local0,
                   ri, fi, rs, newDownloads, events>>
    /\ UNCHANGED syncFrame

Next ==
    \/ login
    \/ getRemoteTree
    \/ getNewFolders
    \/ filesToSync
    \/ queueDownloads
    \/ replaceStep
    \/ replaceDone
    \/ fetch
    \/ syncDone

Spec == Init /\ [][Next]_vars

----------------------------------------------------------------------------
(* A whole run as a function: what getNewFolders, filesToSync and           *)
(* queueDownloads make of a tree and a local directory when every mega-get  *)
(* succeeds.                                                                *)

\* The two lists after getNewFolders() and filesToSync().
Plan(t, loc) ==
    SyncFiles(t, loc, [dl |-> NewFolders(t, loc, <<>>, 1), rl |-> <<>>], 1)

\* The replace loop of queueDownloads: os.remove for every node of the list.
RECURSIVE RemoveAll(_, _)
RemoveAll(loc, rl) ==
    IF rl = <<>> THEN loc
    ELSE RemoveAll([loc EXCEPT ![Head(rl).path] = Absent], Tail(rl))

\* The download loop of queueDownloads: mega-get for every node of the list.
RECURSIVE FetchAll(_, _, _)
FetchAll(loc, rem, dl) ==
    IF dl = <<>> THEN loc
    ELSE FetchAll(Fetched(loc, rem, Head(dl), Head(dl).date), rem, Tail(dl))

\* The local directory after the run.
Completed(t, loc, rem) ==
    LET plan == Plan(t, loc)
    IN  FetchAll(RemoveAll(loc, plan.rl), rem, plan.dl \o plan.rl)

----------------------------------------------------------------------------
(* sync() over a listing that names a path twice.                           *)

\* A second record of the listing for the path of a file, of another size.
DupNodes == {[NodeOf(pAX) EXCEPT !.size = RemoteSize + 1]}

\* As InitSync, and the listing may hold the second record of a file it lists.
InitDup ==
    /\ SyncStart
    /\ unreadable = {}
    /\ ShallowIdle
    /\ ParseIdle
    /\ \E S \in SUBSET {NodeOf(p) : p \in Paths} :
       \E D \in SUBSET DupNodes :
          /\ D # {} => NodeOf(pAX) \in S
          /\ remote = S \cup D

SpecDup == InitDup /\ [][Next]_vars

----------------------------------------------------------------------------
(* sync() over a local directory with a file that cannot be probed.          *)

\* As InitSync, and the probe of at most one of the local files fails, in
\* os.path.exists already or in os.path.getsize only.
InitProbe ==
    /\ InitSync
    /\ ShallowIdle
    /\ ParseIdle
    /\ unreadable \in {u \in SUBSET {ProbeError(p, at) :
                                        p \in {q \in FilePaths : local[q].kind = "file"},
                                        at \in {"exists", "getsize"}} :
                          Cardinality(u) <= 1}

SpecProbe == InitProbe /\ [][Next]_vars

----------------------------------------------------------------------------
(* sync() over a listing that holds a node of another kind.                 *)

\* The flags of Root, Inbox, Rubbish bin and unsupported nodes.
SpecialKinds == {"r", "i", "b", "x"}

\* As InitSync, and the listing may hold, for a path it has no folder or file
\* for, a node of another kind.  A local file is missing, in step with the
\* remote one, or older than it.
InitKinds ==
    /\ SyncStart
    /\ \A p \in FilePaths :
          local[p] \in {Absent, LocalFile(RemoteSize, RemoteDate), LocalFile(RemoteSize, 0)}
    /\ unreadable = {}
    /\ ShallowIdle
    /\ ParseIdle
    /\ \E S \in SUBSET Paths :
          \E O \in SUBSET {[NodeOf(p) EXCEPT !.type = k] :
                              p \in Paths \ S, k \in SpecialKinds} :
              /\ Cardinality(O) <= 1
              /\ remote = {NodeOf(p) : p \in S} \cup O

SpecKinds == InitKinds /\ [][Next]_vars

----------------------------------------------------------------------------
(* The shallow walk: getRemoteTree() and ls() of src/src/scrape.py.         *)

\* sync() is not running: the fields as a run that never started leaves them.
SyncIdle ==
    /\ pc = "idle"
    /\ result = "running"
    /\ remote = {}
    /\ tree = <<>>
    /\ downloadNodes = <<>>
    /\ replaceNodes = <<>>
    /\ local = [p \in Paths |-> Absent]
    /\ local0 = local
    /\ ri = 1
    /\ fi = 1
    /\ rs = 1
    /\ newDownloads = 0
    /\ events = <<>>
    /\ unreadable = {}

\* The entry nodesToCheck starts with: the root directory, path "/".
RootNode == [type |-> "d", path |-> <<"/">>, size |-> 0, date |-> 0]

\* str.lstrip("/\\"): the leading separators removed.
RECURSIVE LStripSep(_)
LStripSep(p) ==
    IF p # <<>> /\ Head(p) \in {"/", "\\"} THEN LStripSep(Tail(p)) ELSE p

\* nodePath of ls(): '/'.join([path, name]).lstrip("/\\")
ShallowPath(path, name) == LStripSep(path \o <<"/">> \o name)

\* The name of a path of the hierarchy: what follows its last separator.
Basename(p) ==
    IF Dirname(p) = <<>> THEN p ELSE SubSeq(p, Len(Dirname(p)) + 2, Len(p))

\* The return code of mega-ls -l for the directory that path names.
LsReturnCode(path) == IF LStripSep(path) \in lsFail THEN 1 ELSE 0

\* ls(path): the records parsed from the stdout of mega-ls -l, in the order of their
\* names.  A non-zero return code is logged and stdout, which then holds no
\* record, is parsed all the same: ls() raises nothing.
Ls(path) ==
    IF LsReturnCode(path) # 0 THEN <<>>
    ELSE SortByPath({[NodeOf(c) EXCEPT !.path = ShallowPath(path, Basename(c))] :
                        c \in {q \in hier : Dirname(q) = LStripSep(path)}})

\* list.insert(i, x) with i counted from 0: x goes before the element at index i,
\* or to the end when the list is shorter.
InsertAt(l, i, x) ==
    LET k == IF i > Len(l) THEN Len(l) ELSE i
    IN  SubSeq(l, 1, k) \o <<x>> \o SubSeq(l, k + 1, Len(l))

\* The inner loop "for m, nodeNew in enumerate(newNodes)" on nodesToCheck, from
\* index m (counted from 0) on: every folder is inserted at n + m + 1.
RECURSIVE InsertFolders(_, _, _, _)
InsertFolders(l, newNodes, n, m) ==
    IF m >= Len(newNodes) THEN l
    ELSE IF newNodes[m + 1].type = "d"
         THEN InsertFolders(InsertAt(l, n + m + 1, newNodes[m + 1]), newNodes, n, m + 1)
         ELSE InsertFolders(l, newNodes, n, m + 1)

\* The inner loop on tree: folders and files are appended, other kinds are not.
KeptNodes(newNodes) == SelectSeq(newNodes, LAMBDA x : x.type \in {"d", "-"})

\* list.sort(reverse=True)
RECURSIVE SortReverse(_)
SortReverse(l) ==
    IF l = <<>> THEN <<>>
    ELSE LET k == CHOOSE i \in 1..Len(l) : \A j \in 1..Len(l) : l[j] <= l[i]
         IN  <<l[k]>> \o SortReverse(SubSeq(l, 1, k - 1) \o SubSeq(l, k + 1, Len(l)))

\* The hierarchies a remote folder can hold: with a path, the folder it lies in.
Hierarchies ==
    {h \in SUBSET Paths : \A p \in h : Dirname(p) = <<>> \/ Dirname(p) \in h}

\* getRemoteTree() of scrape.py is about to run over any hierarchy, with mega-ls
\* failing for any of its directories.
InitShallow ==
    /\ SyncIdle
    /\ ParseIdle
    /\ hier \in Hierarchies
    /\ lsFail \in SUBSET ({<<>>} \cup (hier \cap FolderPaths))
    /\ nodesToCheck = <<>>
    /\ wn = 1
    /\ toPop = <<>>
    /\ stree = <<>>
    /\ badNodes = 0
    /\ wpc = "start"
    /\ lsCalls = <<>>

\* badNodes, tree and nodesToCheck are set up and the while loop is entered.
shallowStart ==
    /\ wpc = "start"
    /\ nodesToCheck' = <<RootNode>>
    /\ wn' = 1
    /\ toPop' = <<>>
    /\ wpc' = "for"
    /\ UNCHANGED <<hier, lsFail, stree, badNodes, lsCalls, syncVars, parseVars>>

\* One iteration of "for n, nodeCheck in enumerate(nodesToCheck)".  self.ls()
\* raises no OSError, so the except branch, which counts a bad node, is not taken.
shallowLs ==
    /\ wpc = "for"
    /\ wn <= Len(nodesToCheck)
    /\ LET nodeCheck == nodesToCheck[wn]
           newNodes == Ls(nodeCheck.path)
       IN  /\ lsCalls' = Append(lsCalls, [path |-> nodeCheck.path,
                                          rc |-> LsReturnCode(nodeCheck.path)])
           /\ nodesToCheck' = InsertFolders(nodesToCheck, newNodes, wn - 1, 0)
           /\ stree' = stree \o KeptNodes(newNodes)
    /\ toPop' = Append(toPop, wn - 1)
    /\ wn' = wn + 1
    /\ UNCHANGED <<hier, lsFail, badNodes, wpc, syncVars, parseVars>>

\* The for loop is over: "for n in toPop.sort(reverse=True)" sorts toPop in place
\* and iterates over None, the value of list.sort, which raises TypeError.
shallowPop ==
    /\ wpc = "for"
    /\ wn > Len(nodesToCheck)
    /\ toPop' = SortReverse(toPop)
    /\ wpc' = "raised"
    /\ UNCHANGED <<hier, lsFail, nodesToCheck, wn, stree, badNodes, lsCalls,
                   syncVars, parseVars>>

NextShallow ==
    \/ shallowStart
    \/ shallowLs
    \/ shallowPop

SpecShallow == InitShallow /\ [][NextShallow]_vars

----------------------------------------------------------------------------
(* The recursive listing parser: lsRecursive() of src/src/sync.py, applied  *)
(* to the characters mega-ls -lr writes to stdout.                          *)

\* The longest listing considered, in items.
MaxLines == 3

Digits == <<"0", "1", "2", "3", "4", "5", "6", "7", "8", "9">>

\* The regular expression class \d
IsDigit(c) == \E i \in 1..10 : Digits[i] = c

\* The regular expression class [\d-]
IsDigitOrDash(c) == IsDigit(c) \/ c = "-"

DigitVal(c) == (CHOOSE i \in 1..10 : Digits[i] = c) - 1

\* int() of a string of digits.
RECURSIVE ToInt(_)
ToInt(s) ==
    IF s = <<>> THEN 0
    ELSE 10 * ToInt(SubSeq(s, 1, Len(s) - 1)) + DigitVal(s[Len(s)])

\* int() raises ValueError unless the string is a number.
IntValid(s) == s # <<>> /\ \A i \in 1..Len(s) : IsDigit(s[i])

\* The decimal digits mega-ls prints for a number.
RECURSIVE ToDigits(_)
ToDigits(n) ==
    IF n < 10 THEN <<Digits[n + 1]>>
    ELSE ToDigits(n \div 10) \o <<Digits[(n % 10) + 1]>>

\* A field right-aligned in a column of the given width.
RECURSIVE PadLeft(_, _)
PadLeft(s, width) == IF Len(s) >= width THEN s ELSE PadLeft(<<" ">> \o s, width)

\* What a listing is made of: the header of a directory, the record of a node
\* and any other line.  text is the directory, the name or the line.
Header(dir) ==
    [kind |-> "header", type |-> "d", text |-> dir, size |-> 0, date |-> <<>>,
     cr |-> FALSE]
Record(type, name, size, date, cr) ==
    [kind |-> "record", type |-> type, text |-> name, size |-> size, date |-> date,
     cr |-> cr]
Other(line) ==
    [kind |-> "other", type |-> "-", text |-> line, size |-> 0, date |-> <<>>,
     cr |-> FALSE]

\* The line mega-ls -lr --time-format=ISO6081_WITH_TIME prints for an item of the
\* remote folder /R: flags, version, size, date and name in columns.
Render(item) ==
    CASE item.kind = "header" ->
            <<"/", "R">> \o (IF item.text = <<>> THEN <<>> ELSE <<"/">> \o item.text)
                         \o <<":">>
      [] item.kind = "record" ->
            <<item.type, "-", "-", "-", " ">>
            \o PadLeft(IF item.type = "-" THEN <<"1">> ELSE <<"-">>, 4) \o <<" ">>
            \o PadLeft(IF item.type = "-" THEN ToDigits(item.size) ELSE <<"-">>, 10)
            \o <<" ">> \o item.date \o <<" ">> \o item.text
            \o (IF item.cr THEN <<"\r">> ELSE <<>>)
      [] OTHER -> item.text

\* pLS.stdout: every line ends with a newline.
RECURSIVE Stdout(_)
Stdout(its) ==
    IF its = <<>> THEN <<>>
    ELSE Render(Head(its)) \o <<"\n">> \o Stdout(Tail(its))

\* str.split(sep)
RECURSIVE Split(_, _)
Split(s, sep) ==
    IF \A i \in 1..Len(s) : s[i] # sep THEN <<s>>
    ELSE LET k == CHOOSE i \in 1..Len(s) :
                      s[i] = sep /\ \A j \in 1..(i - 1) : s[j] # sep
         IN  <<SubSeq(s, 1, k - 1)>> \o Split(SubSeq(s, k + 1, Len(s)), sep)

\* The character of line at position i, counted from 1; past the end a
\* character no class of the patterns holds.
CharAt(line, i) == IF i >= 1 /\ i <= Len(line) THEN line[i] ELSE "\n"

\* re.search(folderPattern, line).  The lookbehind (?<=^\/) makes the match start
\* after a "/" that opens the line; group 1 is the shortest text before one of
\* "/", "(", ":", ")"; the "/" is consumed if it can be; group 2 must not start
\* with "=/" and runs to the last ":" of the line.  dir is group 2.
FolderMatch(line) ==
    LET colons == {c \in 1..Len(line) : line[c] = ":"}
        last == CHOOSE c \in colons : \A e \in colons : e <= c
        Good(j) == /\ colons # {}
                   /\ j <= last
                   /\ ~(CharAt(line, j) = "=" /\ CharAt(line, j + 1) = "/")
        cands == {kj \in (2..Len(line)) \X (2..(Len(line) + 1)) :
                     /\ line[kj[1]] \in {"/", "(", ":", ")"}
                     /\ \/ kj[2] = kj[1]
                        \/ kj[2] = kj[1] + 1 /\ line[kj[1]] = "/"
                     /\ Good(kj[2])}
        Rank(kj) == 2 * kj[1] + (IF kj[2] = kj[1] THEN 1 ELSE 0)
        first == CHOOSE kj \in cands : \A o \in cands : Rank(kj) <= Rank(o)
    IN  IF CharAt(line, 1) = "/" /\ cands # {}
        THEN [ok |-> TRUE, dir |-> SubSeq(line, first[2], last - 1)]
        ELSE [ok |-> FALSE, dir |-> <<>>]

\* The number of spaces that " {0,max}" takes at position i.
SpacesAt(line, i, max) ==
    CHOOSE k \in 0..max :
        /\ \A j \in 0..(k - 1) : CharAt(line, i + j) = " "
        /\ k = max \/ CharAt(line, i + k) # " "

\* The number of characters that "[\d-]+" takes at position i.
RunAt(line, i) ==
    CHOOSE k \in 0..Len(line) :
        /\ \A j \in 0..(k - 1) : IsDigitOrDash(CharAt(line, i + j))
        /\ ~IsDigitOrDash(CharAt(line, i + k))

\* The pattern \d{4}(-\d{2}){2}T\d{2}(:\d{2}){2} at position i.
DateAt(line, i) ==
    /\ \A j \in {0, 1, 2, 3, 5, 6, 8, 9, 11, 12, 14, 15, 17, 18} :
           IsDigit(CharAt(line, i + j))
    /\ CharAt(line, i + 4) = "-"
    /\ CharAt(line, i + 7) = "-"
    /\ CharAt(line, i + 10) = "T"
    /\ CharAt(line, i + 13) = ":"
    /\ CharAt(line, i + 16) = ":"

\* re.search(nodePattern, line): flags, version, size, date and name, each
\* after one space, anchored at the start of the line.
NodeMatch(line) ==
    LET v == 6 + SpacesAt(line, 6, 3)
        s == v + 2 + SpacesAt(line, v + 2, 9)
        run == RunAt(line, s)
        d == s + run + 1
    IN  IF /\ CharAt(line, 1) \in {"b", "d", "i", "r", "x", "-"}
           /\ CharAt(line, 2) \in {"e", "-"}
           /\ CharAt(line, 3) \in {"p", "t", "-"}
           /\ CharAt(line, 4) \in {"i", "s", "-"}
           /\ CharAt(line, 5) = " "
           /\ IsDigitOrDash(CharAt(line, v))
           /\ CharAt(line, v + 1) = " "
           /\ run >= 1
           /\ CharAt(line, s + run) = " "
           /\ DateAt(line, d)
           /\ CharAt(line, d + 19) = " "
        THEN [ok |-> TRUE, type |-> line[1], version |-> <<line[v]>>,
              size |-> SubSeq(line, s, s + run - 1),
              date |-> SubSeq(line, d, d + 18),
              name |-> SubSeq(line, d + 20, Len(line))]
        ELSE [ok |-> FALSE, type |-> "-", version |-> <<>>, size |-> <<>>,
              date |-> <<>>, name |-> <<>>]

\* The fields of a date string that %Y-%m-%dT%H:%M:%S reads.
DateFields(date) ==
    [year |-> ToInt(SubSeq(date, 1, 4)), month |-> ToInt(SubSeq(date, 6, 7)),
     day |-> ToInt(SubSeq(date, 9, 10)), hour |-> ToInt(SubSeq(date, 12, 13)),
     minute |-> ToInt(SubSeq(date, 15, 16)), second |-> ToInt(SubSeq(date, 18, 19))]

DaysInMonth(year, month) ==
    IF month = 2
    THEN (IF year % 4 = 0 /\ (year % 100 # 0 \/ year % 400 = 0) THEN 29 ELSE 28)
    ELSE IF month \in {4, 6, 9, 11} THEN 30 ELSE 31

\* datetime.strptime raises ValueError unless the fields are those of a date.
DateValid(date) ==
    LET f == DateFields(date)
    IN  /\ f.year >= 1
        /\ f.month \in 1..12
        /\ f.day >= 1
        /\ f.day <= DaysInMonth(f.year, f.month)
        /\ f.hour <= 23
        /\ f.minute <= 59
        /\ f.second <= 59

\* datetime.timestamp() where the local time is UTC: the seconds since 1970.
Timestamp(date) ==
    LET f == DateFields(date)
        y == IF f.month <= 2 THEN f.year - 1 ELSE f.year
        era == y \div 400
        yoe == y - era * 400
        mp == IF f.month > 2 THEN f.month - 3 ELSE f.month + 9
        doy == (153 * mp + 2) \div 5 + f.day - 1
        doe == yoe * 365 + yoe \div 4 - yoe \div 100 + doy
        days == era * 146097 + doe - 719468
    IN  days * 86400 + f.hour * 3600 + f.minute * 60 + f.second

\* str.strip(r'\/'), str.rstrip('\r'): the characters of a set removed at the ends.
RECURSIVE RStripChars(_, _)
RStripChars(s, cs) ==
    IF s # <<>> /\ s[Len(s)] \in cs THEN RStripChars(SubSeq(s, 1, Len(s) - 1), cs) ELSE s
RECURSIVE LStripChars(_, _)
LStripChars(s, cs) ==
    IF s # <<>> /\ Head(s) \in cs THEN LStripChars(Tail(s), cs) ELSE s

\* RecursivePath with the current directory left out.
RecursivePathNoDir(dir, name) ==
    LStripChars(RStripChars(name, {"\\", "/"}), {"\\", "/"})

\* nodePath of lsRecursive(): '/'.join([remoteDir, name]).strip(r'\/')
RecursivePath(dir, name) ==
    LStripChars(RStripChars(dir \o <<"/">> \o name, {"\\", "/"}), {"\\", "/"})

\* The node lsRecursive() builds from a matched line.
ParsedNode(dir, m) ==
    [type |-> m.type,
     version |-> IF m.version = <<"-">> THEN 0 ELSE ToInt(m.version),
     size |-> IF m.size = <<"-">> THEN 0 ELSE ToInt(m.size),
     date |-> Timestamp(m.date),
     name |-> RStripChars(m.name, {"\r"}),
     path |-> RecursivePath(dir, RStripChars(m.name, {"\r"}))]

\* The lines of the loop: pLS.stdout.decode('utf-8').split('\n')
Lines == Split(Stdout(items), "\n")

GoodDate ==
    <<"2", "0", "2", "4", "-", "0", "1", "-", "0", "2", "T",
      "0", "3", ":", "0", "4", ":", "0", "5">>
\* A date of the thirteenth month: the pattern of nodePattern takes it.
BadDate ==
    <<"2", "0", "2", "4", "-", "1", "3", "-", "0", "1", "T",
      "0", "0", ":", "0", "0", ":", "0", "0">>

\* The items the listings are made of.
Items ==
    { Header(<<>>), Header(<<"a">>),
      Record("d", <<"a">>, 0, GoodDate, FALSE),
      Record("-", <<"x">>, 1, GoodDate, TRUE),
      Record("-", <<"y", ":">>, 12, GoodDate, FALSE),
      Record("-", <<"s">>, 1, BadDate, FALSE),
      Other(<<>>),
      Other(<<"F", "L", "A", "G", "S", " ", "/", "R", ":">>) }

Listings == UNION {[1..n -> Items] : n \in 1..MaxLines}

\* lsRecursive() is about to parse any listing.
InitParse ==
    /\ SyncIdle
    /\ ShallowIdle
    /\ items \in Listings
    /\ li = 1
    /\ remoteDir = <<>>
    /\ nodes = <<>>
    /\ ppc = "start"

\* nodes and remoteDir are set up, mega-ls has run and the loop is entered.
parseStart ==
    /\ ppc = "start"
    /\ nodes' = <<>>
    /\ remoteDir' = <<>>
    /\ li' = 1
    /\ ppc' = "lines"
    /\ UNCHANGED <<items, syncVars, shallowVars>>

\* One iteration of "for line in pLS.stdout.decode('utf-8').split('\n')".  The
\* ValueError of strptime or of int is not caught: it ends lsRecursive().
parseLine ==
    /\ ppc = "lines"
    /\ li <= Len(Lines)
    /\ LET folderMatch == FolderMatch(Lines[li])
           nodeMatch == NodeMatch(Lines[li])
       IN  IF folderMatch.ok
           THEN /\ remoteDir' = folderMatch.dir
                /\ li' = li + 1
                /\ UNCHANGED <<nodes, ppc>>
           ELSE IF ~nodeMatch.ok
           THEN /\ li' = li + 1
                /\ UNCHANGED <<remoteDir, nodes, ppc>>
           ELSE IF \/ ~DateValid(nodeMatch.date)
                   \/ nodeMatch.size # <<"-">> /\ ~IntValid(nodeMatch.size)
           THEN /\ ppc' = "raised"
                /\ UNCHANGED <<remoteDir, nodes, li>>
           ELSE /\ nodes' = Append(nodes, ParsedNode(remoteDir, nodeMatch))
                /\ li' = li + 1
                /\ UNCHANGED <<remoteDir, ppc>>
    /\ UNCHANGED <<items, syncVars, shallowVars>>

\* The loop is over: return nodes.
parseReturn ==
    /\ ppc = "lines"
    /\ li > Len(Lines)
    /\ ppc' = "returned"
    /\ UNCHANGED <<items, li, remoteDir, nodes, syncVars, shallowVars>>

NextParse ==
    \/ parseStart
    \/ parseLine
    \/ parseReturn

SpecParse == InitParse /\ [][NextParse]_vars

----------------------------------------------------------------------------
(* Shapes the state always has. *)

TypeOK ==
    /\ pc \in {"login", "getRemoteTree", "getNewFolders", "filesToSync",
               "queueDownloads", "replace", "fetch", "end"}
    /\ result \in {"running", "True", "False", "raised"}
    /\ (pc = "end") <=> (result # "running")
    /\ local \in LocalStates
    /\ ri \in 1..(Len(replaceNodes) + 1)
    /\ fi \in 1..(Len(downloadNodes) + 1)
    /\ rs \in 1..Len(ReplaceBody)

----------------------------------------------------------------------------
(* Vocabulary of the properties. *)

TreeNodes == {tree[i] : i \in 1..Len(tree)}

InList(l, n) == \E k \in 1..Len(l) : l[k] = n

Count(l, n) == Cardinality({k \in 1..Len(l) : l[k] = n})

\* getNewFolders and filesToSync have both run (or the run ended before them
\* with an empty tree and empty lists).
Reconciled == pc \in {"queueDownloads", "replace", "fetch", "end"}

HasEvent(op, path) == \E i \in 1..Len(events) : events[i].op = op /\ events[i].path = path

CallFailed(op) == \E i \in 1..Len(events) : events[i].op = op /\ events[i].rc # 0

\* A folder node of the tree that did not exist locally when the run started.
AbsentFolder(F) == F \in TreeNodes /\ F.type = "d" /\ ~Exists(local0, F.path)

\* A file node of the tree whose local file existed when the run started.
LocalFilePresent(n) ==
    n \in TreeNodes /\ n.type = "-" /\ local0[n.path].kind = "file"

\* The tree holds the folder of each of its nodes.
AncestorClosed(t) ==
    \A i \in 1..Len(t) :
        Dirname(t[i].path) = <<>> \/
            \E j \in 1..Len(t) : t[j].path = Dirname(t[i].path) /\ t[j].type = "d"

----------------------------------------------------------------------------
LocalNewerPreservedAnySize ==
    \A n \in TreeNodes :
        (LocalFilePresent(n) /\ local0[n.path].mtime > n.date) =>
            /\ ~InList(replaceNodes, n)
            /\ ~HasEvent("remove", n.path)
            /\ local[n.path] = local0[n.path]

(* C3  Local-override protection as the code has it: a local file strictly  *)
(* newer than the remote node and of the remote size is never in            *)
(* replaceNodes and is never deleted or overwritten.                        *)
LocalNewerPreserved ==
    \A n \in TreeNodes :
        (/\ LocalFilePresent(n)
         /\ local0[n.path].mtime > n.date
         /\ local0[n.path].size = n.size) =>
            /\ ~InList(replaceNodes, n)
            /\ ~HasEvent("remove", n.path)
            /\ local[n.path] = local0[n.path]

\* A run that replaced and fetched a2/z has ended, and the newer local a/x of the
\* remote size is still there.
LocalNewerPreservedWitness ==
    /\ result = "True"
    /\ LocalFilePresent(NodeOf(pAX))
    /\ local0[pAX].mtime > RemoteDate
    /\ local0[pAX].size = RemoteSize
    /\ HasEvent("remove", pA2Z)
    /\ HasEvent("mega-get", pA2Z)
    /\ local[pAX] = local0[pAX]

(* C4  Idempotence: after a run that ended with every fetch done, over a    *)
(* tree that holds the folder of each of its nodes, a second getNewFolders  *)
(* and filesToSync, on empty lists and the same tree, queue nothing.        *)
Idempotence ==
    (result = "True" /\ AncestorClosed(tree)) =>
        LET dl2 == NewFolders(tree, local, <<>>, 1)
            lists2 == SyncFiles(tree, local, [dl |-> dl2, rl |-> <<>>], 1)
        IN  lists2.dl = <<>> /\ lists2.rl = <<>>

(* C5  Convergence: after a run in which login, listing and every fetch     *)
(* succeeded, over a tree that holds the folder of each of its nodes, every *)
(* node of the tree exists locally, and every file has the remote size      *)
(* unless its earlier local copy had that size and was strictly newer.      *)
Convergence ==
    (result = "True" /\ ~CallFailed("mega-ls") /\ AncestorClosed(tree)) =>
        \A n \in TreeNodes :
            /\ Exists(local, n.path)
            /\ n.type = "-" =>
                  \/ local[n.path].size = n.size
                  \/ /\ local0[n.path].kind = "file"
                     /\ local0[n.path].size = n.size
                     /\ local0[n.path].mtime > n.date

(* C6  File fetch rule: a file node whose local directory does not exist is *)
(* in neither list; a file node whose local directory exists and whose      *)
(* local file does not is in downloadNodes exactly once and not in          *)
(* replaceNodes.                                                            *)
FileFetchRule ==
    Reconciled =>
        \A n \in TreeNodes :
            n.type = "-" =>
                /\ ~Exists(local0, Dirname(n.path)) =>
                      ~InList(downloadNodes, n) /\ ~InList(replaceNodes, n)
                /\ (Exists(local0, Dirname(n.path)) /\ ~Exists(local0, n.path)) =>
                      Count(downloadNodes, n) = 1 /\ ~InList(replaceNodes, n)

\* filesToSync has run: a/x, missing in the existing directory a, is queued, and
\* a2/z, whose directory a2 is missing, is in neither list.
FileFetchRuleWitness ==
    /\ pc = "queueDownloads"
    /\ NodeOf(pAX) \in TreeNodes
    /\ Exists(local0, pA)
    /\ ~Exists(local0, pAX)
    /\ InList(downloadNodes, NodeOf(pAX))
    /\ NodeOf(pA2Z) \in TreeNodes
    /\ ~Exists(local0, pA2)
    /\ ~InList(downloadNodes, NodeOf(pA2Z))

NoAbortOnFetchFailure ==
    /\ CallFailed("mega-get") =>
          /\ result # "raised"
          /\ pc = "end" =>
                \A k \in 1..Len(downloadNodes) :
                    HasEvent("mega-get", downloadNodes[k].path)
    /\ newDownloads =
          Cardinality({i \in 1..Len(events) :
                          events[i].op = "mega-get" /\ events[i].rc = 0})

(* C9  Session gate: mega-login is called at most once, straight after the  *)
(* log-out that opens the run and before any listing, deletion or fetch;    *)
(* when the log-out or the log-in fails, nothing is listed, reconciled,     *)
(* deleted or fetched and sync() does not return True.                      *)
SessionGate ==
    LET logins == {i \in 1..Len(events) : events[i].op = "mega-login"}
        work == {"mega-ls", "write", "remove", "append", "mega-get"}
    IN  /\ Cardinality(logins) <= 1
        /\ pc # "login" =>
              /\ events[1].op = "mega-logout"
              /\ events[1].rc = 0 => logins = {2}
        /\ \A j \in 1..Len(events) :
              events[j].op \in work =>
                  \E i \in 1..(j - 1) :
                      events[i].op = "mega-login" /\ events[i].rc = 0
        /\ (CallFailed("mega-logout") \/ CallFailed("mega-login")) =>
              /\ result \in {"False", "raised"}
              /\ \A j \in 1..Len(events) : events[j].op \notin work
              /\ tree = <<>>
              /\ downloadNodes = <<>>
              /\ replaceNodes = <<>>
              /\ local = local0

\* mega-login returned non-zero over a listing and a local directory that would
\* have given work to do, and sync() returned False.
SessionGateWitness ==
    /\ CallFailed("mega-login")
    /\ result = "False"
    /\ NodeOf(pA) \in remote
    /\ ~Exists(local, pA)

(* C10  Recursive listing failure is fatal: after a non-zero mega-ls -lr    *)
(* nothing is queued, deleted or fetched and the run does not end in        *)
(* success.                                                                 *)
ListingFailureFatal ==
    CallFailed("mega-ls") =>
        /\ result # "True"
        /\ downloadNodes = <<>>
        /\ replaceNodes = <<>>
        /\ \A j \in 1..Len(events) : events[j].op \notin {"remove", "mega-get"}

(* C11  Shallow enumeration failure is counted and not fatal: in the walk  *)
(* of scrape.py every failed list invocation adds one to badNodes and the   *)
(* walk goes on to return that count.                                       *)
ShallowFailureCounted ==
    /\ badNodes = Cardinality({i \in 1..Len(lsCalls) : lsCalls[i].rc # 0})
    /\ wpc # "raised"

\* The records of a listing whose timestamp field is a date.
ValidRecords(its) ==
    SelectSeq(its, LAMBDA it : it.kind = "record" /\ DateValid(it.date))

(* C12  Per-record timestamp failure: a line of the record grammar whose    *)
(* timestamp is not a date is dropped alone; the parse does not abort and   *)
(* returns every other record of the listing.                               *)
TimestampFailureDropsRecord ==
    /\ ppc # "raised"
    /\ ppc = "returned" => Len(nodes) = Len(ValidRecords(items))

TreeSorted(t) ==
    \A i, j \in 1..Len(t) : i < j => ~PathLess(t[j].path, t[i].path)

TreeUnique(t) ==
    \A i, j \in 1..Len(t) : i < j => t[i].path # t[j].path

FolderFirst(t) ==
    \A i, j \in 1..Len(t) :
        t[i].type = "d" /\ IsInside(t[j].path, t[i].path) => i < j

(* C13  Assembled tree invariant: whatever records the listing holds, the   *)
(* same path twice included, the tree getRemoteTree leaves is sorted by     *)
(* path, holds each path at most once and holds a folder before all of its  *)
(* descendants.                                                             *)
AssembledTreeInvariant ==
    pc \notin {"login", "getRemoteTree"} =>
        TreeSorted(tree) /\ TreeUnique(tree) /\ FolderFirst(tree)

\* The tree without the nodes whose local probe fails.
Probeable(t) ==
    SelectSeq(t, LAMBDA n : \A u \in unreadable : u.path # n.path)

(* C14  Local-probe errors are per-node: when reading the size or the      *)
(* modification time of an existing local file fails, filesToSync does not  *)
(* raise; it skips that node and evaluates every other node of the tree as  *)
(* it would without the error.                                              *)
ProbeErrorsPerNode ==
    /\ \A i \in 1..Len(events) : events[i].op # "getsize"
    /\ pc = "queueDownloads" =>
          LET plan == SyncFiles(Probeable(tree), local,
                                [dl |-> NewFolders(tree, local, <<>>, 1), rl |-> <<>>], 1)
          IN  downloadNodes = plan.dl /\ replaceNodes = plan.rl

\* What a local directory holds, the modification times aside.
Shape(loc) == [p \in Paths |-> [kind |-> loc[p].kind, size |-> loc[p].size]]

\* The download list brings node: it holds the node or a folder above it.
Covered(dl, node) ==
    \E k \in 1..Len(dl) :
        dl[k] = node \/ (dl[k].type = "d" /\ IsInside(node.path, dl[k].path))

(* C15  Resumability: when a run has stopped after any prefix of the steps  *)
(* of queueDownloads, a fresh reconciliation over the same tree and the     *)
(* local directory as it is then queues every remote file that is missing   *)
(* locally, and completing it leaves the local directory as the             *)
(* uninterrupted run leaves it.                                             *)
Resumability ==
    (pc \in {"replace", "fetch", "end"} /\ AncestorClosed(tree)) =>
        /\ \A n \in TreeNodes :
              n.type = "-" /\ ~Exists(local, n.path) => Covered(Plan(tree, local).dl, n)
        /\ Shape(Completed(tree, local, remote)) = Shape(Completed(tree, local0, remote))

ItemsDone ==
    SubSeq(items, 1, IF li - 1 < Len(items) THEN li - 1 ELSE Len(items))

\* The directory of the last header of a listing, empty when it has none.
RECURSIVE LastHeaderDir(_)
LastHeaderDir(its) ==
    IF its = <<>> THEN <<>>
    ELSE IF its[Len(its)].kind = "header" THEN its[Len(its)].text
    ELSE LastHeaderDir(SubSeq(its, 1, Len(its) - 1))

\* A directory joined with a name.
JoinPath(dir, name) == IF dir = <<>> THEN name ELSE dir \o <<"/">> \o name

\* Kind, name and path of the records of a listing, each path under the
\* directory of the last header before the record.
RECURSIVE RecordsUnderHeaders(_)
RecordsUnderHeaders(its) ==
    IF its = <<>> THEN <<>>
    ELSE LET front == SubSeq(its, 1, Len(its) - 1)
             last == its[Len(its)]
         IN  IF last.kind = "record"
             THEN Append(RecordsUnderHeaders(front),
                         [type |-> last.type, name |-> last.text,
                          path |-> JoinPath(LastHeaderDir(front), last.text)])
             ELSE RecordsUnderHeaders(front)

(* C17  Recursive-mode directory context: lsRecursive keeps one current     *)
(* directory that starts empty and is, after any number of lines, the       *)
(* directory of the last header line among them; the nodes are the record   *)
(* lines among them, each with the path of the current directory at its     *)
(* line joined with its name; header lines and other lines yield no node;   *)
(* no line is of both the header and the record grammar.                    *)
DirectoryContext ==
    ppc \in {"lines", "returned", "raised"} =>
        /\ remoteDir = LastHeaderDir(ItemsDone)
        /\ [k \in 1..Len(nodes) |->
               [type |-> nodes[k].type, name |-> nodes[k].name, path |-> nodes[k].path]]
              = RecordsUnderHeaders(ItemsDone)
        /\ \A i \in 1..Len(Lines) :
              ~(FolderMatch(Lines[i]).ok /\ NodeMatch(Lines[i]).ok)

\* A listing was parsed whose last header is that of directory a and which
\* has the record of x after that header.
DirectoryContextWitness ==
    /\ ppc = "returned"
    /\ remoteDir = <<"a">>
    /\ \E k \in 1..Len(nodes) : nodes[k].path = <<"a", "/", "x">>
    /\ Len(nodes) < Len(items)

\* The nodes of a tree that are folders or files.
FoldersAndFiles(t) == SelectSeq(t, LAMBDA n : n.type \in {"d", "-"})

(* C18  Kind filter: only Folder and File nodes are ever in the download    *)
(* list or the replace list; no mega-get and no os.remove is issued for a   *)
(* node of another kind; and the two lists are those the tree without such  *)
(* nodes gives.                                                             *)
KindFilter ==
    /\ \A k \in 1..Len(downloadNodes) : downloadNodes[k].type \in {"d", "-"}
    /\ \A k \in 1..Len(replaceNodes) : replaceNodes[k].type \in {"d", "-"}
    /\ \A n \in TreeNodes :
          n.type \notin {"d", "-"} =>
              ~HasEvent("mega-get", n.path) /\ ~HasEvent("remove", n.path)
    /\ pc = "queueDownloads" =>
          /\ downloadNodes = Plan(FoldersAndFiles(tree), local).dl
          /\ replaceNodes = Plan(FoldersAndFiles(tree), local).rl

\* A run has returned True that fetched and replaced, over a tree with a node
\* of another kind that is absent locally.
KindFilterWitness ==
    /\ pc = "end"
    /\ result = "True"
    /\ \E n \in TreeNodes : n.type \in SpecialKinds /\ ~Exists(local0, n.path)
    /\ replaceNodes # <<>>
    /\ Len(downloadNodes) > Len(replaceNodes)

(* C19  Independent, minimal plan: when the download loop of               *)
(* queueDownloads starts, no path occurs twice in the download list and no  *)
(* entry's path lies inside the path of another entry.                      *)
IndependentPlan ==
    pc = "fetch" =>
        \A i, j \in 1..Len(downloadNodes) :
            i # j => /\ downloadNodes[i].path # downloadNodes[j].path
                     /\ ~IsInside(downloadNodes[j].path, downloadNodes[i].path)

(* C20  Subsumption only by true ancestors: after getNewFolders every      *)
(* folder node of the tree that is absent locally is in the download list   *)
(* or has a folder above it in the download list; a folder is not left out  *)
(* because a sibling whose name begins its own is queued.                   *)
SubsumptionOnlyByAncestors ==
    pc = "filesToSync" =>
        \A F \in TreeNodes :
            F.type = "d" /\ ~Exists(local, F.path) =>
                \/ InList(downloadNodes, F)
                \/ \E k \in 1..Len(downloadNodes) :
                       /\ downloadNodes[k].type = "d"
                       /\ IsInside(F.path, downloadNodes[k].path)

(* C21  Destination exists at dispatch: when the tree holds the folder of  *)
(* each of its nodes, the local directory mega-get is given as destination, *)
(* the local root joined with the directory of the node's path, exists      *)
(* whenever the download loop is about to invoke mega-get for an entry.     *)
DestinationExists ==
    (pc = "fetch" /\ fi <= Len(downloadNodes) /\ AncestorClosed(tree)) =>
        Exists(local, Dirname(downloadNodes[fi].path))

\* mega-get is about to be invoked for an entry that lies in a folder, after
\* an earlier entry was fetched.
DestinationExistsWitness ==
    /\ pc = "fetch"
    /\ fi > 1
    /\ fi <= Len(downloadNodes)
    /\ AncestorClosed(tree)
    /\ Dirname(downloadNodes[fi].path) # <<>>

\* The directories of the hierarchy the walk can reach: the root, and a folder
\* whose parent is reached and listed without failure.
RECURSIVE Reachable(_)
Reachable(d) ==
    \/ d = <<>>
    \/ /\ d \in hier \cap FolderPaths
       /\ Dirname(d) \notin lsFail
       /\ Reachable(Dirname(d))

\* The list operation was invoked once for the root and once for every folder
\* that can be reached, and for nothing else.
ListedOncePerFolder ==
    /\ \A i, j \in 1..Len(lsCalls) : i # j => lsCalls[i].path # lsCalls[j].path
    /\ {LStripSep(lsCalls[i].path) : i \in 1..Len(lsCalls)}
          = {d \in {<<>>} \cup FolderPaths : Reachable(d)}

(* C22  Shallow walk terminates: the loop of getRemoteTree of scrape.py    *)
(* ends by returning, not by an exception; when its pass over the pending   *)
(* list is over the list operation has been invoked exactly once for the    *)
(* root and for every reachable folder; and it leaves the pending list      *)
(* empty.                                                                   *)
ShallowWalkTerminates ==
    /\ wpc # "raised"
    /\ (wpc = "for" /\ wn > Len(nodesToCheck)) => ListedOncePerFolder
    /\ wpc \notin {"start", "for"} => nodesToCheck = <<>>

\* The part of C22 on the invocations of the list operation, which holds.
ShallowListedOnce ==
    (wpc = "raised" \/ (wpc = "for" /\ wn > Len(nodesToCheck))) => ListedOncePerFolder

====
